---- MODULE Spec2Model ----
(***************************************************************************)
(* A model of the OpenPGP signature packet engine of src/src/sig.rs:       *)
(* PgpSig::new, PgpSig::from_bytes, the fixed-offset accessors and verify. *)
(* A byte is a number in 0..255, a buffer (Vec<u8>, &[u8]) a sequence of   *)
(* bytes.  Rust indexes from 0 and TLA+ from 1: the operators At and Slice *)
(* take Rust's 0-based indices.  An index or slice out of bounds is a      *)
(* panic: every operation returns a record whose tag is "Ok", "Err" or     *)
(* "Panic".                                                                *)
(***************************************************************************)
EXTENDS Integers, Sequences, FiniteSets, TLC

VARIABLES sig, outcome, made, input, ret

vars == <<sig, outcome, made, input, ret>>

---------------------------------------------------------------------------
(* Bounds of the model. *)

\* longest signed data, in bytes
MaxDataLen == 1
\* most caller subpackets handed to PgpSig::new
MaxSubpackets == 1
\* most bytes that follow the packet in an input of from_bytes
MaxTrailing == 1
\* longest prefix of a packet body tried as a truncated body
MaxShortBody == 7

---------------------------------------------------------------------------
(* Bytes and slices. *)

Byte == 0..255

\* s[i], Rust index
At(s, i) == s[i + 1]

\* &s[lo..hi], Rust indices; in bounds iff lo <= hi /\ hi <= Len(s)
Slice(s, lo, hi) == SubSeq(s, lo + 1, hi)

CanSlice(s, lo, hi) == lo >= 0 /\ lo <= hi /\ hi <= Len(s)

\* byteorder::BigEndian::read_u16 / read_u32 of the bytes at s[i..]
read_u16(s, i) == At(s, i) * 256 + At(s, i + 1)

\* the 32-bit length of a 0x8a header as (high 16 bits, low 16 bits)
read_u32_hi(s, i) == read_u16(s, i)
read_u32_lo(s, i) == read_u16(s, i + 2)

bigendian_u16(n) == <<(n \div 256) % 256, n % 256>>

bigendian_u32(n) ==
    <<(n \div 16777216) % 256, (n \div 65536) % 256, (n \div 256) % 256, n % 256>>

\* u8::leading_zeros
leading_zeros(b) ==
    IF b >= 128 THEN 0 ELSE IF b >= 64 THEN 1 ELSE IF b >= 32 THEN 2
    ELSE IF b >= 16 THEN 3 ELSE IF b >= 8 THEN 4 ELSE IF b >= 4 THEN 5
    ELSE IF b >= 2 THEN 6 ELSE IF b >= 1 THEN 7 ELSE 8

---------------------------------------------------------------------------
(* Results. *)

Ok(v) == [tag |-> "Ok", val |-> v, err |-> "none"]
Err(e) == [tag |-> "Err", val |-> <<>>, err |-> e]
Panic == [tag |-> "Panic", val |-> <<>>, err |-> "none"]

---------------------------------------------------------------------------
(* SigType: the enum's discriminants (sig_type as u8). *)

SigTypes ==
    {"BinaryDocument", "TextDocument", "Standalone", "GenericCertification",
     "PersonaCertification", "CasualCertification", "PositiveCertification",
     "SubkeyBinding", "PrimaryKeyBinding", "DirectlyOnKey", "KeyRevocation",
     "SubkeyRevocation", "CertificationRevocation", "Timestamp",
     "ThirdPartyConfirmation"}

SigTypeCode(t) ==
    CASE t = "BinaryDocument" -> 0
      [] t = "TextDocument" -> 1
      [] t = "Standalone" -> 2
      [] t = "GenericCertification" -> 16
      [] t = "PersonaCertification" -> 17
      [] t = "CasualCertification" -> 18
      [] t = "PositiveCertification" -> 19
      [] t = "SubkeyBinding" -> 24
      [] t = "PrimaryKeyBinding" -> 25
      [] t = "DirectlyOnKey" -> 31
      [] t = "KeyRevocation" -> 32
      [] t = "SubkeyRevocation" -> 40
      [] t = "CertificationRevocation" -> 48
      [] t = "Timestamp" -> 64
      [] t = "ThirdPartyConfirmation" -> 80

---------------------------------------------------------------------------
(* The external collaborators: the digest and the signing primitive.       *)

\* A 32-byte digest of a byte string: a checksum that weighs every byte by
\* its position, written into the first three bytes, and the length, into
\* the fourth.  Absorb sums the bytes lo..hi of s, by halves.
RECURSIVE Absorb(_, _, _)
Absorb(s, lo, hi) ==
    IF lo > hi THEN 0
    ELSE IF lo = hi
         THEN ((s[lo] + 1) * ((lo * lo * 7919 + lo * 104729 + 1) % 8388593)) % 8388593
         ELSE LET mid == (lo + hi) \div 2
              IN (Absorb(s, lo, mid) + Absorb(s, mid + 1, hi)) % 8388593

Digest(pre) ==
    LET a == Absorb(pre, 1, Len(pre))
    IN [i \in 1..32 |->
          IF i = 1 THEN a % 256
          ELSE IF i = 2 THEN (a \div 256) % 256
          ELSE IF i = 3 THEN (a \div 65536) % 256
          ELSE IF i = 4 THEN Len(pre) % 256
          ELSE 0]

\* The signer of key k: a deterministic 64-byte signature of a digest.
Sign(k, hash) ==
    [i \in 1..64 |->
       IF i <= 32 THEN (hash[i] + k) % 256
       ELSE (hash[i - 32] + 2 * k + i) % 256]

\* The verifier of key k: true only of k's own signature of the digest.
Verifier(k, hash, signature) == signature = Sign(k, hash)

---------------------------------------------------------------------------
(* The packet writers of crate::packet, which PgpSig::new calls.  Each     *)
(* takes the packet written so far and returns it extended.                *)

\* a subpacket: one length byte counting the tag and the data, the tag,
\* the data
write_single_subpacket(packet, tag, data) ==
    packet \o <<Len(data) + 1, tag>> \o data

\* a subpacket area: a 2-byte big-endian length, backpatched, then the
\* entries the closure wrote
write_subpackets(packet, entries) ==
    packet \o bigendian_u16(Len(entries)) \o entries

\* an MPI: the 2-byte bit length counted from the most significant set bit
\* of the first byte, then the raw bytes
write_mpi(packet, mpi) ==
    packet \o bigendian_u16(Len(mpi) * 8 - leading_zeros(mpi[1])) \o mpi

\* prepare_packet(tag, f): three header bytes are reserved, f writes the
\* body after them, and the header is backpatched: the old-format tag byte
\* with a 2-byte length, then the body length.  written is the packet as f
\* left it.
prepare_packet(tag, written) ==
    <<128 + tag * 4 + 1>> \o bigendian_u16(Len(written) - 3)
        \o Slice(written, 3, Len(written))

---------------------------------------------------------------------------
(* PgpSig::new *)

\* the caller's subpackets, written in order
RECURSIVE write_caller_subpackets(_, _, _)
write_caller_subpackets(packet, subpackets, i) ==
    IF i > Len(subpackets) THEN packet
    ELSE write_caller_subpackets(
             write_single_subpacket(packet, subpackets[i].tag, subpackets[i].data),
             subpackets, i + 1)

\* the entries of the hashed subpacket area: fingerprint, timestamp, then
\* the caller's
hashed_subpackets(fingerprint, unix_time, subpackets) ==
    write_caller_subpackets(
        write_single_subpacket(
            write_single_subpacket(<<>>, 33, <<4>> \o fingerprint),
            2, bigendian_u32(unix_time)),
        subpackets, 1)

\* the packet when the hash is taken: the reserved header, the four fixed
\* bytes and the hashed subpacket area
new_hashed_packet(fingerprint, sig_type, unix_time, subpackets) ==
    write_subpackets(<<0, 0, 0, 4, SigTypeCode(sig_type), 22, 8>>,
                     hashed_subpackets(fingerprint, unix_time, subpackets))

\* what new feeds the hasher
new_preimage(data, packet) ==
    data \o Slice(packet, 3, Len(packet)) \o <<4, 255>>
         \o bigendian_u32(Len(packet) - 3)

\* what the sign callback returns to new: the signature, by the signer of
\* key, of the digest of the preimage
new_signature(data, fingerprint, sig_type, unix_time, subpackets, key) ==
    Sign(key, Digest(new_preimage(data,
            new_hashed_packet(fingerprint, sig_type, unix_time, subpackets))))

\* the buffer of the PgpSig that new returns; key names the signer behind
\* the sign callback
New(data, fingerprint, sig_type, unix_time, subpackets, key) ==
    LET hashed == new_hashed_packet(fingerprint, sig_type, unix_time, subpackets)
        hash == Digest(new_preimage(data, hashed))
        unhashed == write_subpackets(hashed,
                        write_single_subpacket(<<>>, 16, Slice(fingerprint, 12, 20)))
        preview == unhashed \o Slice(hash, 0, 2)
        signed == new_signature(data, fingerprint, sig_type, unix_time,
                                subpackets, key)
        r == write_mpi(preview, Slice(signed, 0, 32))
        s == write_mpi(r, Slice(signed, 32, 64))
    IN prepare_packet(2, s)

---------------------------------------------------------------------------
(* The accessors of PgpSig; data is the buffer it owns. *)

as_bytes(data) == data

\* hashed_section with the end of the slice one byte too far
hashed_section_off_by_one(data) ==
    IF ~CanSlice(data, 7, 9) THEN Panic
    ELSE LET subpackets_len == read_u16(data, 7)
         IN IF ~CanSlice(data, 3, subpackets_len + 10) THEN Panic
            ELSE Ok(Slice(data, 3, subpackets_len + 10))

hashed_section(data) ==
    IF ~CanSlice(data, 7, 9) THEN Panic
    ELSE LET subpackets_len == read_u16(data, 7)
         IN IF ~CanSlice(data, 3, subpackets_len + 9) THEN Panic
            ELSE Ok(Slice(data, 3, subpackets_len + 9))

\* signature without the two MPI headers dropped
signature_keeps_mpi_headers(data) ==
    IF Len(data) < 68 THEN Panic
    ELSE LET init == Len(data) - 68
             sig_data == Slice(data, init, Len(data))
         IN Ok(Slice(sig_data, 0, 32) \o Slice(sig_data, 34, 66))

signature(data) ==
    IF Len(data) < 68 THEN Panic
    ELSE LET init == Len(data) - 68
             sig_data == Slice(data, init, Len(data))
         IN Ok(Slice(sig_data, 2, 34) \o Slice(sig_data, 36, 68))

fingerprint(data) ==
    IF ~CanSlice(data, 10, 30) THEN Panic
    ELSE Ok(Slice(data, 10, 30))

\* sig_type with the arm of 0x1F missing
sig_type_missing_arm(data) ==
    IF Len(data) <= 4 THEN Panic
    ELSE LET b == At(data, 4)
         IN CASE b = 0 -> Ok("BinaryDocument")
              [] b = 1 -> Ok("TextDocument")
              [] b = 2 -> Ok("Standalone")
              [] b = 16 -> Ok("GenericCertification")
              [] b = 17 -> Ok("PersonaCertification")
              [] b = 18 -> Ok("CasualCertification")
              [] b = 19 -> Ok("PositiveCertification")
              [] b = 24 -> Ok("SubkeyBinding")
              [] b = 25 -> Ok("PrimaryKeyBinding")
              [] b = 32 -> Ok("KeyRevocation")
              [] b = 40 -> Ok("SubkeyRevocation")
              [] b = 48 -> Ok("CertificationRevocation")
              [] b = 64 -> Ok("Timestamp")
              [] b = 80 -> Ok("ThirdPartyConfirmation")
              [] OTHER -> Panic

sig_type(data) ==
    IF Len(data) <= 4 THEN Panic
    ELSE LET b == At(data, 4)
         IN CASE b = 0 -> Ok("BinaryDocument")
              [] b = 1 -> Ok("TextDocument")
              [] b = 2 -> Ok("Standalone")
              [] b = 16 -> Ok("GenericCertification")
              [] b = 17 -> Ok("PersonaCertification")
              [] b = 18 -> Ok("CasualCertification")
              [] b = 19 -> Ok("PositiveCertification")
              [] b = 24 -> Ok("SubkeyBinding")
              [] b = 25 -> Ok("PrimaryKeyBinding")
              [] b = 31 -> Ok("DirectlyOnKey")
              [] b = 32 -> Ok("KeyRevocation")
              [] b = 40 -> Ok("SubkeyRevocation")
              [] b = 48 -> Ok("CertificationRevocation")
              [] b = 64 -> Ok("Timestamp")
              [] b = 80 -> Ok("ThirdPartyConfirmation")
              [] OTHER -> Panic

\* verify_preimage with the trailer's length counting the 3-byte header too
verify_preimage_counts_header(absorbed, section) ==
    absorbed \o section \o <<4, 255>> \o bigendian_u32(Len(section) + 3)

\* what verify feeds the hasher, when the input callback absorbs absorbed
verify_preimage(absorbed, section) ==
    absorbed \o section \o <<4, 255>> \o bigendian_u32(Len(section))

\* verify, with an input callback that absorbs absorbed and the verifier of
\* key
verify(data, absorbed, key) ==
    LET section == hashed_section(data)
        extracted == signature(data)
    IN IF section.tag = "Panic" \/ extracted.tag = "Panic" THEN Panic
       ELSE Ok(Verifier(key, Digest(verify_preimage(absorbed, section.val)),
                        extracted.val))

---------------------------------------------------------------------------
(* PgpSig::from_bytes *)

\* packet_header without the check of a 4-byte length against u16::MAX
packet_header_unchecked_u32(data) ==
    IF Len(data) = 0 THEN Err("UnsupportedPacketLength")
    ELSE IF At(data, 0) = 136 THEN
            IF Len(data) < 2 THEN Err("InvalidPacketHeader")
            ELSE Ok([init |-> 2, len |-> At(data, 1)])
    ELSE IF At(data, 0) = 137 THEN
            IF Len(data) < 3 THEN Err("InvalidPacketHeader")
            ELSE Ok([init |-> 3, len |-> read_u16(data, 1)])
    ELSE IF At(data, 0) = 138 THEN
            IF Len(data) < 5 THEN Err("InvalidPacketHeader")
            ELSE Ok([init |-> 5, len |-> read_u32_hi(data, 1) * 65536
                                          + read_u32_lo(data, 1)])
    ELSE Err("UnsupportedPacketLength")

\* the match on the first byte: Ok carries init, the header's size, and
\* len, the body length it states
packet_header(data) ==
    IF Len(data) = 0 THEN Err("UnsupportedPacketLength")
    ELSE IF At(data, 0) = 136 THEN
            IF Len(data) < 2 THEN Err("InvalidPacketHeader")
            ELSE Ok([init |-> 2, len |-> At(data, 1)])
    ELSE IF At(data, 0) = 137 THEN
            IF Len(data) < 3 THEN Err("InvalidPacketHeader")
            ELSE Ok([init |-> 3, len |-> read_u16(data, 1)])
    ELSE IF At(data, 0) = 138 THEN
            IF Len(data) < 5 THEN Err("InvalidPacketHeader")
            ELSE IF read_u32_hi(data, 1) > 0 THEN Err("UnsupportedPacketLength")
            ELSE Ok([init |-> 5, len |-> read_u32_lo(data, 1)])
    ELSE Err("UnsupportedPacketLength")

\* packet_body with the check forgetting the header's size
packet_body_forgets_init(data, init, len) ==
    IF Len(data) < len THEN Err("InvalidPacketHeader")
    ELSE IF ~CanSlice(data, init, init + len) THEN Panic
    ELSE Ok(Slice(data, init, init + len))

\* &data[init..][..len], after the check that the body is all there
packet_body(data, init, len) ==
    IF Len(data) < init + len THEN Err("InvalidPacketHeader")
    ELSE IF ~CanSlice(data, init, init + len) THEN Panic
    ELSE Ok(Slice(data, init, init + len))

\* owned_buffer that never re-frames
owned_buffer_not_reframed(data, init, len, packet) == data

\* the buffer the PgpSig will own: the input itself under a 2-byte length
\* header, a fresh buffer under the 2-byte header otherwise
owned_buffer(data, init, len, packet) ==
    IF init = 3 THEN data
    ELSE <<137>> \o bigendian_u16(len) \o packet

\* Ok carries [data, packet]: the owned buffer and the packet body
find_signature_packet(data) ==
    LET header == packet_header(data)
    IN IF header.tag # "Ok" THEN header
       ELSE LET init == header.val.init
                len == header.val.len
                packet == packet_body(data, init, len)
            IN IF packet.tag # "Ok" THEN packet
               ELSE Ok([data |-> owned_buffer(data, init, len, packet.val),
                        packet |-> packet.val])

has_correct_structure(packet) ==
    IF Len(packet) < 6 THEN Err("UnsupportedSignaturePacket")
    ELSE IF ~(At(packet, 0) = 4 /\ At(packet, 2) = 22 /\ At(packet, 3) = 8)
         THEN Err("UnsupportedSignaturePacket")
    ELSE LET hashed_len == read_u16(packet, 4)
         IN IF Len(packet) < hashed_len + 8 THEN Err("UnsupportedSignaturePacket")
            ELSE IF ~CanSlice(packet, hashed_len + 6, hashed_len + 8) THEN Panic
            ELSE LET unhashed_len == read_u16(packet, hashed_len + 6)
                 IN IF Len(packet) # unhashed_len + hashed_len + 78
                    THEN Err("UnsupportedSignaturePacket")
                    ELSE Ok(<<>>)

\* has_correct_hashed_subpackets with the length bound one too small
has_correct_hashed_subpackets_short(packet) ==
    IF ~CanSlice(packet, 4, 6) THEN Panic
    ELSE LET hashed_len == read_u16(packet, 4)
         IN IF hashed_len < 22 THEN Err("MissingFingerprintSubpacket")
            ELSE IF Len(packet) <= 6 THEN Panic
            ELSE IF At(packet, 6) # 22 THEN Err("MissingFingerprintSubpacket")
            ELSE IF Len(packet) <= 7 THEN Panic
            ELSE IF At(packet, 7) # 33 THEN Err("MissingFingerprintSubpacket")
            ELSE IF Len(packet) <= 8 THEN Panic
            ELSE IF At(packet, 8) # 4 THEN Err("MissingFingerprintSubpacket")
            ELSE Ok(<<>>)

has_correct_hashed_subpackets(packet) ==
    IF ~CanSlice(packet, 4, 6) THEN Panic
    ELSE LET hashed_len == read_u16(packet, 4)
         IN IF hashed_len < 23 THEN Err("MissingFingerprintSubpacket")
            ELSE IF Len(packet) <= 6 THEN Panic
            ELSE IF At(packet, 6) # 22 THEN Err("MissingFingerprintSubpacket")
            ELSE IF Len(packet) <= 7 THEN Panic
            ELSE IF At(packet, 7) # 33 THEN Err("MissingFingerprintSubpacket")
            ELSE IF Len(packet) <= 8 THEN Panic
            ELSE IF At(packet, 8) # 4 THEN Err("MissingFingerprintSubpacket")
            ELSE Ok(<<>>)

\* Ok carries the buffer of the PgpSig
from_bytes(bytes) ==
    LET found == find_signature_packet(bytes)
    IN IF found.tag # "Ok" THEN found
       ELSE LET structure == has_correct_structure(found.val.packet)
            IN IF structure.tag # "Ok" THEN structure
               ELSE LET subpackets == has_correct_hashed_subpackets(found.val.packet)
                    IN IF subpackets.tag # "Ok" THEN subpackets
                       ELSE Ok(found.val.data)

---------------------------------------------------------------------------
(* The arguments the model hands to PgpSig::new. *)

\* the sequences over S of length at most n
SeqsUpTo(S, n) == UNION {[1..k -> S] : k \in 0..n}

DataSet == SeqsUpTo({72, 111}, MaxDataLen)

Fingerprints == {[i \in 1..20 |-> 160 + i], [i \in 1..20 |-> (7 * i) % 256]}

Timestamps == {0, 1514764800}

\* caller subpackets whose tag and data fit a single length byte
SubPacketSet == {[tag |-> 27, data |-> <<2>>], [tag |-> 20, data |-> <<110, 64, 1>>]}

SubPacketLists == SeqsUpTo(SubPacketSet, MaxSubpackets)

Keys == {7, 200}

NoArgs ==
    [built |-> FALSE, data |-> <<>>, fingerprint |-> <<>>,
     sig_type |-> "BinaryDocument", unix_time |-> 0, subpackets |-> <<>>,
     key |-> 0, signed |-> <<>>]

---------------------------------------------------------------------------
(* The inputs the model hands to PgpSig::from_bytes: packet bodies built   *)
(* field by field, right and wrong, under each length header, cut short    *)
(* and followed by more bytes.                                             *)

\* version, signature type, signing algorithm, hash algorithm
Heads == {<<4, 0, 22, 8>>, <<4, 3, 22, 8>>, <<3, 0, 22, 8>>, <<4, 0, 1, 8>>,
          <<4, 0, 22, 10>>}

FingerprintSubpacket == <<22, 33, 4>> \o [i \in 1..20 |-> 160 + i]

\* hashed subpacket areas
Areas ==
    {FingerprintSubpacket,
     FingerprintSubpacket \o <<5, 2, 90, 73, 138, 0>>,
     SubSeq(FingerprintSubpacket, 1, 22),
     [FingerprintSubpacket EXCEPT ![1] = 21],
     [FingerprintSubpacket EXCEPT ![2] = 32],
     [FingerprintSubpacket EXCEPT ![3] = 5],
     <<>>}

\* values of the hashed-area length field for an area of n bytes
HashedLenFields(n) == {m \in {n - 1, n, n + 1} : m >= 0} \cup {65535}

\* unhashed subpacket areas
UnhashedAreas == {<<>>, <<9, 16, 173, 174, 175, 176, 177, 178, 179, 180>>}

\* hash preview and the two MPIs: 70 bytes when right
PreviewAndMpis == [i \in 1..71 |-> (3 * i) % 256]

MkBody(head, hashed_len, area, unhashed_len, unhashed, tail) ==
    head \o bigendian_u16(hashed_len) \o area \o bigendian_u16(unhashed_len)
         \o unhashed \o tail

Bodies ==
    UNION {{MkBody(h, hl, a, Len(u) + du, u, SubSeq(PreviewAndMpis, 1, 70 + dt)) :
               h \in Heads, hl \in HashedLenFields(Len(a)), u \in UnhashedAreas,
               du \in {0, 1}, dt \in {-1, 0, 1}} : a \in Areas}

GoodBody ==
    MkBody(<<4, 0, 22, 8>>, 23, FingerprintSubpacket, 0, <<>>, SubSeq(PreviewAndMpis, 1, 70))

\* a right body cut short
ShortBodies == {SubSeq(GoodBody, 1, k) : k \in 0..MaxShortBody}

\* a right body under every value of the signature type octet
TypeProbeBodies == {[GoodBody EXCEPT ![2] = c] : c \in Byte}

\* header plus body: first is the first byte, high and declared the
\* length the header states (high counts 65536s and is written only by
\* the 4-byte form)
Frame(first, high, declared, body) ==
    IF first = 136 THEN <<136, declared % 256>> \o body
    ELSE IF first = 138
         THEN <<138>> \o bigendian_u16(high) \o bigendian_u16(declared) \o body
         ELSE <<first>> \o bigendian_u16(declared) \o body

FirstBytes == {136, 137, 138, 139}

\* the declared length less the body length: negative when bytes follow
\* the packet, positive when the packet is cut short
LengthSlack == (0 - MaxTrailing)..1

Framed(bodies) ==
    {Frame(t[1], t[2], Len(t[4]) + t[3], t[4]) :
        t \in {u \in FirstBytes \X {0, 1} \X LengthSlack \X bodies :
                  Len(u[4]) + u[3] >= 0}}

\* an input cut inside its header
HeaderCuts ==
    {SubSeq(Frame(f, 0, Len(GoodBody), GoodBody), 1, k) : f \in FirstBytes, k \in 0..4}

Inputs ==
    Framed(Bodies \cup ShortBodies)
        \cup {Frame(137, 0, Len(b), b) : b \in TypeProbeBodies}
        \cup HeaderCuts

---------------------------------------------------------------------------
(* The state: the PgpSig under test (sig, its buffer; outcome, how it came *)
(* to be, or the error that left none), the arguments of new (made) or the *)
(* bytes given to from_bytes (input) that it came from, and the last       *)
(* accessor call and its result (ret).  A PgpSig is immutable once built:  *)
(* a behaviour is the life of one PgpSig, built by new or from_bytes from  *)
(* the initial state and queried from then on.                             *)

NoRet == [op |-> "none", res |-> Ok(<<>>), absorbed |-> <<>>, key |-> 0]

Init ==
    /\ sig = <<>>
    /\ outcome = "none"
    /\ made = NoArgs
    /\ input = <<>>
    /\ ret = NoRet

HaveSig == outcome \in {"New", "Ok"}

\* how from_bytes ended
Outcome(r) == IF r.tag = "Err" THEN r.err ELSE r.tag

DoNew(data, fp, st, t, subs, k) ==
    /\ outcome = "none"
    /\ sig' = New(data, fp, st, t, subs, k)
    /\ outcome' = "New"
    /\ made' = [built |-> TRUE, data |-> data, fingerprint |-> fp, sig_type |-> st,
                unix_time |-> t, subpackets |-> subs, key |-> k,
                signed |-> new_signature(data, fp, st, t, subs, k)]
    /\ input' = <<>>
    /\ ret' = NoRet

DoFromBytes(bytes) ==
    LET r == from_bytes(bytes)
    IN /\ outcome = "none"
       /\ sig' = IF r.tag = "Ok" THEN r.val ELSE <<>>
       /\ outcome' = Outcome(r)
       /\ made' = NoArgs
       /\ input' = bytes
       /\ ret' = NoRet

\* from_bytes(sig.as_bytes()) of a PgpSig that new built
DoRoundTrip ==
    /\ outcome = "New"
    /\ ret = NoRet
    /\ LET r == from_bytes(as_bytes(sig))
       IN /\ sig' = IF r.tag = "Ok" THEN r.val ELSE <<>>
          /\ outcome' = Outcome(r)
          /\ input' = as_bytes(sig)
    /\ UNCHANGED <<made, ret>>

\* a call of an accessor: the caller holds what it returned (ret) until it
\* drops it
Call(op, res, absorbed, k) ==
    /\ HaveSig
    /\ ret = NoRet
    /\ ret' = [op |-> op, res |-> res, absorbed |-> absorbed, key |-> k]
    /\ UNCHANGED <<sig, outcome, made, input>>

CallHashedSection == Call("hashed_section", hashed_section(sig), <<>>, 0)

CallSignature == Call("signature", signature(sig), <<>>, 0)

CallFingerprint == Call("fingerprint", fingerprint(sig), <<>>, 0)

CallSigType == Call("sig_type", sig_type(sig), <<>>, 0)

CallVerify(absorbed, k) == Call("verify", verify(sig, absorbed, k), absorbed, k)

\* the caller drops the value the last call returned
Drop ==
    /\ ret # NoRet
    /\ ret' = NoRet
    /\ UNCHANGED <<sig, outcome, made, input>>

\* the PgpSig under test is built once
Construct ==
    /\ outcome = "none"
    /\ \E data \in DataSet, fp \in Fingerprints, st \in SigTypes, t \in Timestamps,
          subs \in SubPacketLists, k \in Keys : DoNew(data, fp, st, t, subs, k)

Parse ==
    /\ outcome = "none"
    /\ \E bytes \in Inputs : DoFromBytes(bytes)

Verify ==
    /\ HaveSig
    /\ ret = NoRet
    /\ \E absorbed \in DataSet, k \in Keys : CallVerify(absorbed, k)

Next ==
    \/ Construct
    \/ Parse
    \/ DoRoundTrip
    \/ CallHashedSection
    \/ CallSignature
    \/ CallFingerprint
    \/ CallSigType
    \/ Verify
    \/ Drop

Spec == Init /\ [][Next]_vars

---------------------------------------------------------------------------
(* What the properties below speak of. *)

\* the PgpSig under test came out of from_bytes, or from_bytes failed
Parsed == outcome \notin {"none", "New"}

\* the PgpSig under test was built by new and then parsed back
RoundTripped == made.built /\ Parsed

\* the codes of the SigType variants
Codes == {SigTypeCode(t) : t \in SigTypes}

Recognized(x) == Len(x) > 0 /\ x[1] \in {136, 137, 138}

\* the size of the header that the first byte announces
HeaderSize(x) == IF x[1] = 136 THEN 2 ELSE IF x[1] = 137 THEN 3 ELSE 5

HeaderComplete(x) == Recognized(x) /\ Len(x) >= HeaderSize(x)

\* a 4-byte length above 65535: one of its two high bytes is set
Exceeds65535(x) == x[1] = 138 /\ (x[2] > 0 \/ x[3] > 0)

\* the length a complete header declares, when it fits 16 bits
Declared(x) ==
    IF x[1] = 136 THEN x[2]
    ELSE IF x[1] = 137 THEN x[2] * 256 + x[3]
    ELSE x[4] * 256 + x[5]

\* the bytes after the header
Available(x) == Len(x) - HeaderSize(x)

\* the declared length exceeds the bytes available; no input of the model
\* holds 65536 bytes, so a length above 65535 always does
DeclaredExceedsAvailable(x) == Exceeds65535(x) \/ Declared(x) > Available(x)

FramingAccepted(x) ==
    HeaderComplete(x) /\ ~Exceeds65535(x) /\ Declared(x) <= Available(x)

\* the input is exactly a header followed by the body it declares
ExactlyFramed(x) ==
    HeaderComplete(x) /\ ~Exceeds65535(x) /\ Declared(x) = Available(x)

BodyOf(x) == SubSeq(x, HeaderSize(x) + 1, HeaderSize(x) + Declared(x))

\* the outcome the structural rules give a packet body b
ExpectedStructural(b) ==
    LET lh == b[5] * 256 + b[6]
        lu == b[lh + 7] * 256 + b[lh + 8]
    IN IF \/ Len(b) < 6
          \/ <<b[1], b[3], b[4]>> # <<4, 22, 8>>
          \/ Len(b) < lh + 8
          \/ Len(b) # lh + lu + 78
       THEN "UnsupportedSignaturePacket"
       ELSE IF lh < 23 \/ SubSeq(b, 7, 9) # <<22, 33, 4>>
            THEN "MissingFingerprintSubpacket"
            ELSE "Ok"

---------------------------------------------------------------------------
(* The properties. *)

\* C1: a PgpSig built by new parses back from its own bytes: from_bytes
\* succeeds, and on the parsed packet sig_type() is the sig_type given to
\* new and signature() is the 64 bytes the sign callback returned.
RoundTrip ==
    RoundTripped =>
        /\ outcome = "Ok"
        /\ ret.op = "sig_type" => ret.res = Ok(made.sig_type)
        /\ ret.op = "signature" => ret.res = Ok(made.signed)

RoundTripWitness ==
    /\ RoundTripped
    /\ made.subpackets # <<>>
    /\ ret.op = "signature"
    /\ ret.res = Ok(made.signed)

\* C2: fingerprint() of a PgpSig built by new (or parsed back from it) is
\* the 20 fingerprint bytes given to new.
FingerprintReturned ==
    (made.built /\ ret.op = "fingerprint") => ret.res = Ok(made.fingerprint)

\* C3: on a PgpSig built by new over data D with the signer of key K,
\* verify is true when the input callback absorbs D and the verifier is
\* K's, the preimage it hashes being the one new hashed; it is false when
\* the data differs or the verifier is another key's.
VerifyCorrect ==
    (made.built /\ ret.op = "verify") =>
        /\ ret.res.tag = "Ok"
        /\ ret.res.val = (ret.absorbed = made.data /\ ret.key = made.key)
        /\ ret.absorbed = made.data =>
              verify_preimage(ret.absorbed, hashed_section(sig).val)
                = new_preimage(made.data,
                      new_hashed_packet(made.fingerprint, made.sig_type,
                                        made.unix_time, made.subpackets))

VerifyWitness ==
    /\ made.built
    /\ made.subpackets # <<>>
    /\ ret.op = "verify"
    /\ ret.res = Ok(TRUE)

\* C4: from_bytes never panics: on every input it ends with Ok or with one
\* of the four errors, no index or slice out of bounds.
FromBytesNeverPanics ==
    Parsed =>
        outcome \in {"Ok", "InvalidPacketHeader", "UnsupportedPacketLength",
                     "UnsupportedSignaturePacket", "MissingFingerprintSubpacket"}

\* a hashed-area length that points past the end of the input
NeverPanicsWitness ==
    /\ Parsed
    /\ ExactlyFramed(input)
    /\ Len(BodyOf(input)) >= 6
    /\ BodyOf(input)[1] = 4
    /\ BodyOf(input)[5] * 256 + BodyOf(input)[6] > Len(input)
    /\ outcome = "UnsupportedSignaturePacket"

\* C5: the buffer of every PgpSig is exactly one canonically framed
\* packet: byte 0 is 0x89, bytes 1..3 the body length, the buffer 3 bytes
\* longer than the body, the body L_h + L_u + 78 bytes long, and
\* signature() the R and S of the packet's two MPI fields.
BufferInvariant ==
    HaveSig =>
        LET lh == read_u16(sig, 7)
            lu == read_u16(sig, 9 + lh)
            mpis == 3 + 6 + lh + 2 + lu + 2
        IN /\ At(sig, 0) = 137
           /\ read_u16(sig, 1) = Len(sig) - 3
           /\ Len(sig) - 3 = lh + lu + 78
           /\ ret.op = "signature" =>
                 ret.res = Ok(Slice(sig, mpis + 2, mpis + 34)
                                \o Slice(sig, mpis + 36, mpis + 68))

\* C6: on an input whose framing is accepted, from_bytes ends as the
\* structural rules say: UnsupportedSignaturePacket for a body under 6
\* bytes, ids other than (4, 22, 8) or a length other than L_h + L_u + 78,
\* else MissingFingerprintSubpacket for L_h < 23 or an area that does not
\* begin (22, 33, 4), else Ok.
StructuralRejection ==
    (Parsed /\ FramingAccepted(input)) =>
        outcome = ExpectedStructural(BodyOf(input))

\* a body whose lengths add up and whose hashed area is one byte short
StructuralRejectionWitness ==
    /\ Parsed
    /\ FramingAccepted(input)
    /\ Len(BodyOf(input)) = 100
    /\ BodyOf(input)[6] = 22
    /\ outcome = "MissingFingerprintSubpacket"

\* C7, as claimed: UnsupportedPacketLength for a first byte outside
\* {0x88, 0x89, 0x8a} and for a 4-byte length above 65535;
\* InvalidPacketHeader for a recognized first byte with a truncated header
\* or a declared length above the bytes available.
FramingErrorsAsClaimed ==
    Parsed =>
        /\ (Len(input) > 0 /\ ~Recognized(input)) =>
              outcome = "UnsupportedPacketLength"
        /\ (HeaderComplete(input) /\ Exceeds65535(input)) =>
              outcome = "UnsupportedPacketLength"
        /\ (Recognized(input)
              /\ (~HeaderComplete(input) \/ DeclaredExceedsAvailable(input))) =>
              outcome = "InvalidPacketHeader"

\* C7, amended: as claimed, but InvalidPacketHeader for a declared length
\* above the bytes available only when that length does not exceed 65535.
FramingErrors ==
    Parsed =>
        /\ (Len(input) > 0 /\ ~Recognized(input)) =>
              outcome = "UnsupportedPacketLength"
        /\ (HeaderComplete(input) /\ Exceeds65535(input)) =>
              outcome = "UnsupportedPacketLength"
        /\ (Recognized(input)
              /\ (\/ ~HeaderComplete(input)
                  \/ ~Exceeds65535(input) /\ Declared(input) > Available(input))) =>
              outcome = "InvalidPacketHeader"

\* a 4-byte length above 65535, which is also above the bytes available
FramingErrorsWitness ==
    /\ Parsed
    /\ HeaderComplete(input)
    /\ Exceeds65535(input)
    /\ outcome = "UnsupportedPacketLength"

\* C8: a body of at most 255 bytes parses the same under the 1-byte, the
\* 2-byte and the 4-byte length header: the same error, or the same
\* buffer (the 2-byte form) and the same hashed_section().
HeaderLengthIdempotence ==
    (Parsed /\ ExactlyFramed(input) /\ Declared(input) <= 255) =>
        \A first \in {136, 137, 138} :
            LET body == BodyOf(input)
                other == from_bytes(Frame(first, 0, Len(body), body))
            IN /\ Outcome(other) = outcome
               /\ outcome = "Ok" =>
                     /\ as_bytes(other.val) = as_bytes(sig)
                     /\ as_bytes(sig) = Frame(137, 0, Len(body), body)
                     /\ hashed_section(other.val) = hashed_section(sig)

HeaderLengthIdempotenceWitness ==
    /\ Parsed
    /\ ExactlyFramed(input)
    /\ input[1] = 136
    /\ outcome = "Ok"
    /\ ret.op = "hashed_section"

\* C9, as claimed: with no caller subpackets, hashed_section() of a PgpSig
\* built by new is 9 + 27 bytes long.
HashedSectionLengthAsClaimed ==
    (made.built /\ made.subpackets = <<>> /\ ret.op = "hashed_section") =>
        ret.res.tag = "Ok" /\ Len(ret.res.val) = 9 + 27

\* C9, amended: it is 6 + 29 bytes long: the four fixed bytes and the
\* 2-byte area length, then the fingerprint subpacket (22 + 1 length byte)
\* and the timestamp subpacket (5 + 1 length byte).
HashedSectionLength ==
    (made.built /\ made.subpackets = <<>> /\ ret.op = "hashed_section") =>
        ret.res.tag = "Ok" /\ Len(ret.res.val) = 6 + 29

HashedSectionLengthWitness ==
    /\ made.built
    /\ made.subpackets = <<>>
    /\ ret.op = "hashed_section"
    /\ ret.res.tag = "Ok"

\* C10: sig_type() maps byte 4 onto the SigType variant of that code and
\* aborts on every other byte; from_bytes accepts a right packet under
\* every value of the signature type octet; the other accessors and
\* verify stay in bounds on every accepted packet.
SigTypeAborts ==
    /\ ret.op = "sig_type" =>
          IF At(sig, 4) \in Codes
          THEN /\ ret.res.tag = "Ok"
               /\ ret.res.val \in SigTypes
               /\ SigTypeCode(ret.res.val) = At(sig, 4)
          ELSE ret.res = Panic
    /\ (Parsed /\ ExactlyFramed(input) /\ BodyOf(input) \in TypeProbeBodies) =>
          outcome = "Ok"
    /\ ret.op \in {"hashed_section", "signature", "fingerprint", "verify"} =>
          ret.res.tag = "Ok"

SigTypeAbortsWitness ==
    /\ outcome = "Ok"
    /\ At(sig, 4) = 255
    /\ ret.op = "sig_type"
    /\ ret.res = Panic

====
